---- MODULE Spec2Model ----
(***************************************************************************)
(* Model of the SCM Globe JSON comparator (src/main.py).                   *)
(*                                                                         *)
(* Python values are tagged records [t, v]; paths and report texts are     *)
(* real strings, built and matched character by character as the code's   *)
(* f-strings, substring tests and regular expressions do.  Non-ASCII       *)
(* decoration of the fixed messages (the check-mark, warning-sign and      *)
(* arrow glyphs) is left out of the string literals.                       *)
(***************************************************************************)
EXTENDS Integers, Sequences, FiniteSets, TLC

VARIABLES
    base_cases,          \* the base_cases directory: file name -> file content
    stored_testfiles,    \* dcc.Store 'stored-testfiles': [filenames, contents]
    base_file,           \* value of the base dropdown
    n_clicks,            \* n_clicks of the compare button
    user_files,          \* the files the user can drop on the upload area
    base_data,           \* global base_data: the base document loaded last
    comparison_results,  \* global comparison_results: file name -> report text
    testfile_dropdown,   \* outputs of compare_multiple_files: [options, value]
    results              \* the text shown in the 'results' pane

vars == <<base_cases, user_files, stored_testfiles, base_file, n_clicks,
          base_data, comparison_results, testfile_dropdown, results>>

(***************************************************************************)
(* Bounds                                                                  *)
(***************************************************************************)
MaxFiles == 2      \* most test files held in the store
MaxClicks == 2     \* most clicks on the compare button
MaxBatch == 2      \* most files dropped on the upload area at once

(***************************************************************************)
(* Python values                                                           *)
(***************************************************************************)
PyNone == [t |-> "none", v |-> 0]
Str(s) == [t |-> "str", v |-> s]
Num(n) == [t |-> "num", v |-> n]
Arr(s) == [t |-> "arr", v |-> s]
Obj(r) == [t |-> "obj", v |-> r]
EmptyDict == Obj(<<>>)
EmptyList == Arr(<<>>)

IsDict(x) == x.t = "obj"

\* dict.get(key, default); d is a dict
Get(d, k, default) == IF k \in DOMAIN d.v THEN d.v[k] ELSE default

\* Python truthiness
Truthy(x) ==
    CASE x.t = "none" -> FALSE
      [] x.t = "str" -> x.v # ""
      [] x.t = "num" -> x.v # 0
      [] x.t = "arr" -> Len(x.v) > 0
      [] x.t = "obj" -> DOMAIN x.v # {}

RECURSIVE JoinStr(_, _)
JoinStr(sep, parts) ==
    IF Len(parts) = 0 THEN ""
    ELSE IF Len(parts) = 1 THEN parts[1]
    ELSE parts[1] \o sep \o JoinStr(sep, Tail(parts))

\* str(x) / f"{x}"
RECURSIVE PyStr(_)
PyStr(x) ==
    CASE x.t = "none" -> "None"
      [] x.t = "str" -> x.v
      [] x.t = "num" -> ToString(x.v)
      [] x.t = "arr" -> "[" \o JoinStr(", ", [i \in 1..Len(x.v) |-> PyStr(x.v[i])]) \o "]"
      [] x.t = "obj" -> "{...}"

(***************************************************************************)
(* Strings: str.startswith, str.endswith, the `in` test and re.search      *)
(***************************************************************************)
Min(S) == CHOOSE m \in S : \A o \in S : m <= o

StartsWith(s, p) == Len(p) <= Len(s) /\ SubSeq(s, 1, Len(p)) = p
EndsWith(s, p) == Len(p) <= Len(s) /\ SubSeq(s, Len(s) - Len(p) + 1, Len(s)) = p
Contains(s, p) == \E i \in 1..(Len(s) - Len(p) + 1) : SubSeq(s, i, i + Len(p) - 1) = p

CharAt(s, i) == SubSeq(s, i, i)
Digits == {"0", "1", "2", "3", "4", "5", "6", "7", "8", "9"}
DigitVal(c) ==
    CASE c = "0" -> 0 [] c = "1" -> 1 [] c = "2" -> 2 [] c = "3" -> 3 [] c = "4" -> 4
      [] c = "5" -> 5 [] c = "6" -> 6 [] c = "7" -> 7 [] c = "8" -> 8 [] c = "9" -> 9

\* first position at or after i that does not hold a digit
RECURSIVE DigitsEnd(_, _)
DigitsEnd(s, i) ==
    IF i <= Len(s) /\ CharAt(s, i) \in Digits THEN DigitsEnd(s, i + 1) ELSE i

\* int(group) of a run of digits
RECURSIVE ParseInt(_)
ParseInt(s) ==
    IF Len(s) = 0 THEN 0
    ELSE 10 * ParseInt(SubSeq(s, 1, Len(s) - 1)) + DigitVal(CharAt(s, Len(s)))

NoMatch == [matched |-> FALSE, group |-> 0]

\* re.search(r"\['<field>'\]\[(\d+)\]", path): leftmost match, greedy digits
IndexSearch(field, path) ==
    LET pat == "['" \o field \o "']["
        n == Len(pat)
        Starts == {i \in 1..(Len(path) - n + 1) :
                      /\ SubSeq(path, i, i + n - 1) = pat
                      /\ LET e == DigitsEnd(path, i + n)
                         IN e > i + n /\ e <= Len(path) /\ CharAt(path, e) = "]"}
    IN IF Starts = {} THEN NoMatch
       ELSE LET i == Min(Starts)
            IN [matched |-> TRUE,
                group |-> ParseInt(SubSeq(path, i + n, DigitsEnd(path, i + n) - 1))]

\* a faulty variant: the id field is looked for in the last step of the path only
is_ignored_path_LastStepOnly(path) ==
    \E a \in 1..(Len(path) - 1) :
        /\ SubSeq(path, a, a + 1) = "['"
        /\ EndsWith(path, "']")
        /\ \E i \in (a + 2)..(Len(path) - 3) :
               /\ CharAt(path, i) \in {"i", "I"}
               /\ CharAt(path, i + 1) \in {"d", "D"}
               /\ \A k \in (a + 2)..(Len(path) - 2) : CharAt(path, k) # "]"

\* re.search(r"\['[^]]*id[^]]*'\]", path, re.IGNORECASE)
is_ignored_path(path) ==
    \E a \in 1..(Len(path) - 1) :
        /\ SubSeq(path, a, a + 1) = "['"
        /\ \E i \in (a + 2)..(Len(path) - 1) :
               /\ CharAt(path, i) \in {"i", "I"}
               /\ CharAt(path, i + 1) \in {"d", "D"}
               /\ \E b \in (i + 2)..(Len(path) - 1) :
                      /\ SubSeq(path, b, b + 1) = "']"
                      /\ \A k \in (a + 2)..(b - 1) : CharAt(path, k) # "]"

(***************************************************************************)
(* DeepDiff(base_data, test_data, verbose_level=2), main.py line 353.      *)
(* Dictionaries are compared key by key, lists position by position (the   *)
(* items are dictionaries, so no content matching is done); a list longer  *)
(* in one document yields iterable_item_removed / iterable_item_added for  *)
(* its surplus positions, a differing leaf yields values_changed.  Keys    *)
(* present in one dictionary only and leaves of different types go to      *)
(* groups the program never reads.                                         *)
(***************************************************************************)
KeyOrder == <<"id", "attrs", "UID", "name", "lat", "lon", "storage_capacity", "speed",
              "provider", "geo", "distance", "drop_vol", "end_facility_id",
              "price", "delay", "geopath", "products", "outputs", "facilities",
              "vehicles", "stops">>

EmptyDiff == [values_changed |-> <<>>, iterable_item_added |-> <<>>,
              iterable_item_removed |-> <<>>]

MergeDiff(a, b) ==
    [values_changed |-> a.values_changed \o b.values_changed,
     iterable_item_added |-> a.iterable_item_added \o b.iterable_item_added,
     iterable_item_removed |-> a.iterable_item_removed \o b.iterable_item_removed]

\* the groups of a sequence of partial results, concatenated in order
RECURSIVE MergeAll(_)
MergeAll(parts) ==
    IF Len(parts) = 0 THEN EmptyDiff
    ELSE MergeDiff(Head(parts), MergeAll(Tail(parts)))

RECURSIVE DiffAt(_, _, _)
DiffAt(t1, t2, path) ==
    IF t1.t # t2.t THEN EmptyDiff
    ELSE IF t1.t = "obj"
    THEN MergeAll([k \in 1..Len(KeyOrder) |->
             LET key == KeyOrder[k]
             IN IF key \in DOMAIN t1.v /\ key \in DOMAIN t2.v
                THEN DiffAt(t1.v[key], t2.v[key], path \o "['" \o key \o "']")
                ELSE EmptyDiff])
    ELSE IF t1.t = "arr"
    THEN MergeAll([i \in 1..(IF Len(t1.v) > Len(t2.v) THEN Len(t1.v) ELSE Len(t2.v)) |->
             LET p == path \o "[" \o ToString(i - 1) \o "]"
             IN IF i > Len(t2.v)
                THEN [EmptyDiff EXCEPT !.iterable_item_removed =
                          <<[path |-> p, value |-> t1.v[i]]>>]
                ELSE IF i > Len(t1.v)
                THEN [EmptyDiff EXCEPT !.iterable_item_added =
                          <<[path |-> p, value |-> t2.v[i]]>>]
                ELSE DiffAt(t1.v[i], t2.v[i], p)])
    ELSE IF t1.v # t2.v
         THEN [EmptyDiff EXCEPT !.values_changed =
                   <<[path |-> path, old_value |-> t1, new_value |-> t2]>>]
         ELSE EmptyDiff

DeepDiff(t1, t2) == DiffAt(t1, t2, "root")

(***************************************************************************)
(* Name-resolution tables                                                  *)
(***************************************************************************)
EmptyMap == <<>>
Put(m, k, x) == [y \in (DOMAIN m) \cup {k} |-> IF y = k THEN x ELSE m[y]]
Lookup(m, k, default) == IF k \in DOMAIN m THEN m[k] ELSE default

\* base_data.get("facilities", []) + test_data.get("facilities", [])
ItemsOf(data, key) == Get(data, key, EmptyList).v

\* round(float(x), 4); coordinates are counted in units of 0.00001 degree
Round4(n) ==
    LET r == n % 10
        d == n - r
    IN IF r < 5 THEN d
       ELSE IF r > 5 THEN d + 10
       ELSE IF (d \div 10) % 2 = 0 THEN d ELSE d + 10

IsNumber(x) == x.t = "num"

\* rounded_geo(geo): None when geo is not a pair of numbers
rounded_geo(geo) ==
    IF geo.t = "arr" /\ Len(geo.v) >= 2 /\ IsNumber(geo.v[1]) /\ IsNumber(geo.v[2])
    THEN <<Round4(geo.v[1].v), Round4(geo.v[2].v)>>
    ELSE <<>>

RECURSIVE ProductNames(_, _), FacilityNamesById(_, _), GeoToFacility(_, _)
ProductNames(ps, m) ==
    IF Len(ps) = 0 THEN m
    ELSE LET p == Head(ps)
             pid == Get(Get(p, "attrs", EmptyDict), "id", PyNone)
             name == Get(Get(p, "attrs", EmptyDict), "name", PyNone)
         IN ProductNames(Tail(ps),
                IF Truthy(pid) /\ Truthy(name) THEN Put(m, PyStr(pid), name) ELSE m)

FacilityNamesById(fs, m) ==
    IF Len(fs) = 0 THEN m
    ELSE LET f == Head(fs)
             name == Get(Get(f, "attrs", EmptyDict), "name", Str("(Unnamed)"))
         IN FacilityNamesById(Tail(fs),
                IF "id" \in DOMAIN f.v /\ "attrs" \in DOMAIN f.v
                THEN Put(m, PyStr(f.v["id"]), name) ELSE m)

GeoToFacility(fs, m) ==
    IF Len(fs) = 0 THEN m
    ELSE LET f == Head(fs)
             name == Get(Get(f, "attrs", EmptyDict), "name", Str("(Unnamed)"))
             attrs == Get(f, "attrs", EmptyDict)
             ok == /\ "attrs" \in DOMAIN f.v
                   /\ "lat" \in DOMAIN attrs.v /\ "lon" \in DOMAIN attrs.v
                   /\ IsNumber(attrs.v["lat"]) /\ IsNumber(attrs.v["lon"])
         IN GeoToFacility(Tail(fs),
                IF ok THEN Put(m, rounded_geo(Arr(<<attrs.v["lat"], attrs.v["lon"]>>)), name)
                ELSE m)

\* VEHICLE_NAMES_BY_PATH[(f_idx, v_idx)] over the base document
VehicleNamesByPath(base) ==
    LET fs == ItemsOf(base, "facilities")
        keys == UNION {{<<f, v>> : v \in 0..(Len(ItemsOf(fs[f + 1], "vehicles")) - 1)} :
                          f \in 0..(Len(fs) - 1)}
    IN [k \in keys |->
           LET v == ItemsOf(fs[k[1] + 1], "vehicles")[k[2] + 1]
           IN Get(v.v["attrs"], "name", Str("Vehicle #" \o ToString(k[2] + 1)))]

prepare_mappings(base, test) ==
    LET fs == ItemsOf(base, "facilities") \o ItemsOf(test, "facilities")
        bf == ItemsOf(base, "facilities")
    IN [PRODUCT_NAMES_BY_ID |->
            ProductNames(ItemsOf(base, "products") \o ItemsOf(test, "products"), EmptyMap),
        FACILITY_NAMES_BY_ID |-> FacilityNamesById(fs, EmptyMap),
        GEO_TO_FACILITY |-> GeoToFacility(fs, EmptyMap),
        FACILITY_NAMES_BY_INDEX |->
            [i \in 1..Len(bf) |->
                Get(Get(bf[i], "attrs", EmptyDict), "name", Str("(Unnamed)"))],
        VEHICLE_NAMES_BY_PATH |-> VehicleNamesByPath(base)]

get_facility_name_by_index(ix, index) ==
    IF index + 1 \in DOMAIN ix.FACILITY_NAMES_BY_INDEX
    THEN ix.FACILITY_NAMES_BY_INDEX[index + 1]
    ELSE Str("Facility #" \o ToString(index + 1))

get_facility_name_by_geo(ix, geo) ==
    LET rgeo == rounded_geo(geo)
    IN Lookup(ix.GEO_TO_FACILITY, rgeo, Str("(Unknown Facility @ " \o PyStr(geo) \o ")"))

get_vehicle_name_by_fac_index(ix, fac_index, veh_index) ==
    Lookup(ix.VEHICLE_NAMES_BY_PATH, <<fac_index, veh_index>>,
           Str("Vehicle (" \o ToString(fac_index) \o "," \o ToString(veh_index) \o ")"))

\* the names of the facilities of a document, as a set
FacilityNameSet(data) ==
    LET fs == ItemsOf(data, "facilities")
    IN {Get(Get(fs[i], "attrs", EmptyDict), "name", PyNone) : i \in 1..Len(fs)}

\* a faulty variant: the documents are matched on facility ids, not names
shared_facilities_exist_ById(base, test) ==
    LET ids(data) == {Get(ItemsOf(data, "facilities")[i], "id", PyNone) :
                         i \in 1..Len(ItemsOf(data, "facilities"))}
    IN ids(base) \cap ids(test) # {}

shared_facilities_exist(base, test) ==
    FacilityNameSet(base) \cap FacilityNameSet(test) # {}

(***************************************************************************)
(* describe_change(path, change): the rendered line, or None               *)
(***************************************************************************)
FromTo(from_val, to_val) ==
    ":\n   - From: " \o PyStr(from_val) \o "\n   - To:   " \o PyStr(to_val)

FromToQuoted(from_val, to_val) ==
    ":\n   - From: \"" \o PyStr(from_val) \o "\"\n   - To:   \"" \o PyStr(to_val) \o "\""

\* a faulty variant: the product id is never looked up
ProductId_NeverResolved(product_match, base, test) == PyNone

\* the product-id lookup loop of lines 81-87, over [base products, test products]
ProductId(product_match, base, test) ==
    LET bp == ItemsOf(base, "products")
        tp == ItemsOf(test, "products")
        i == product_match.group
        idOf(ds) == Get(Get(ds[i + 1], "attrs", EmptyDict), "id", PyNone)
    IN IF ~product_match.matched THEN PyNone
       ELSE IF i < Len(bp) /\ Truthy(idOf(bp)) THEN idOf(bp)
       ELSE IF i < Len(tp) THEN idOf(tp)
       ELSE IF i < Len(bp) THEN idOf(bp)
       ELSE PyNone

\* a faulty variant: the name is looked for directly under the vehicle
SuppressVehicleName_NoAttrs(path, vehicle_match) ==
    vehicle_match.matched /\ EndsWith(path, "]['name']") /\ ~EndsWith(path, "['attrs']['name']")

SuppressVehicleName(path, vehicle_match) ==
    vehicle_match.matched /\ EndsWith(path, "['attrs']['name']")

describe_change(path, change, counter, ix, base, test) ==
    LET from_val == change.old_value
        to_val == change.new_value
        facility_match == IndexSearch("facilities", path)
        vehicle_match == IndexSearch("vehicles", path)
        product_match == IndexSearch("products", path)
        stop_match == IndexSearch("stops", path)
        stop_index == IF stop_match.matched THEN ToString(stop_match.group + 1) ELSE "?"
        facility_name ==
            IF facility_match.matched
            THEN PyStr(get_facility_name_by_index(ix, facility_match.group))
            ELSE "Unknown Facility"
        vehicle_name ==
            IF facility_match.matched /\ vehicle_match.matched
            THEN PyStr(get_vehicle_name_by_fac_index(ix, facility_match.group,
                                                     vehicle_match.group))
            ELSE "Unknown Vehicle"
        product_id == ProductId(product_match, base, test)
        product_name ==
            PyStr(Lookup(ix.PRODUCT_NAMES_BY_ID, PyStr(product_id),
                         IF product_match.matched
                         THEN Str("Product #" \o ToString(product_match.group + 1))
                         ELSE Str("Unknown Product")))
        n == ToString(counter)
        plain == FromTo(from_val, to_val)
        atFacility(what) ==
            Str(n \o ". " \o what \o " changed at facility item in '" \o facility_name
                  \o "'" \o plain)
        forVehicle(what) ==
            Str(n \o ". Vehicle " \o what \o " changed for '" \o vehicle_name \o "' at '"
                  \o facility_name \o "'" \o plain)
        forProduct(what, fromto) ==
            Str(n \o ". Product " \o what \o " changed for " \o product_name \o fromto)
    IN  IF SuppressVehicleName(path, vehicle_match) THEN PyNone
        ELSE IF Truthy(product_id) /\ EndsWith(path, "['attrs']['name']")
        THEN forProduct("name", FromToQuoted(from_val, to_val))
        ELSE IF Truthy(product_id) /\ EndsWith(path, "['attrs']['price']")
        THEN forProduct("cost", plain)
        ELSE IF Truthy(product_id) /\ EndsWith(path, "['attrs']['weight']")
        THEN forProduct("weight", plain)
        ELSE IF Truthy(product_id) /\ EndsWith(path, "['attrs']['cube_size']")
        THEN forProduct("size", plain)
        ELSE IF Contains(path, "['storage_capacity']")
        THEN Str(n \o ". Storage capacity changed at '" \o facility_name \o "'" \o plain)
        ELSE IF Contains(path, "['outputs']") THEN atFacility("Output quantity")
        ELSE IF Contains(path, "['demands']") THEN atFacility("Demand quantity")
        ELSE IF Contains(path, "['daily_carbon_output_kg']")
        THEN atFacility("Carbon Output quantity")
        ELSE IF Contains(path, "['stored']") THEN atFacility("Quantity on Hand")
        ELSE IF Contains(path, "['rent_cost']") THEN atFacility("Daily Rent Cost")
        ELSE IF Contains(path, "['opt_cost']") THEN atFacility("Daily Operating Cost")
        ELSE IF /\ facility_match.matched
                /\ EndsWith(path, "['attrs']['name']")
                /\ StartsWith(path, "root['facilities']")
                /\ ~Contains(path, "['vehicles']")
        THEN atFacility("Facility Name")
        ELSE IF Contains(path, "['delay']") THEN forVehicle("delay")
        ELSE IF vehicle_match.matched /\ EndsWith(path, "['attrs']['carry_volume']")
        THEN forVehicle("carry volume")
        ELSE IF vehicle_match.matched /\ EndsWith(path, "['attrs']['speed']")
        THEN forVehicle("speed")
        ELSE IF vehicle_match.matched /\ EndsWith(path, "['attrs']['cost_per_km']")
        THEN forVehicle("cost per km")
        ELSE IF vehicle_match.matched /\ EndsWith(path, "['attrs']['max_weight']")
        THEN forVehicle("max weight")
        ELSE IF vehicle_match.matched /\ EndsWith(path, "['attrs']['carbon_kg_per_km']")
        THEN forVehicle("carbon emissions per km")
        ELSE IF Contains(path, "['geopath']")
        THEN Str(n \o ". Route path (geopath) changed for " \o vehicle_name \o " at '"
                   \o facility_name
                   \o "':\n   - (Old and new paths differ; string too long to display.)")
        ELSE IF EndsWith(path, "['attrs']['distance']") /\ stop_match.matched
        THEN Str(n \o ". Stop distance changed at stop #" \o stop_index \o " ("
                   \o vehicle_name \o ", Facility '" \o facility_name \o "'):\n   - From: "
                   \o PyStr(from_val) \o " meters\n   - To:   " \o PyStr(to_val) \o " meters")
        ELSE IF EndsWith(path, "['attrs']['drop_vol']")
        THEN Str(n \o ". Drop volume changed at stop #" \o stop_index \o " ("
                   \o vehicle_name \o ", Facility '" \o facility_name \o "')" \o plain)
        ELSE IF EndsWith(path, "['attrs']['distance']") /\ ~stop_match.matched
        THEN Str(n \o ". Route distance changed (Facility '" \o facility_name \o "' -> "
                   \o vehicle_name \o "):\n   - From: " \o PyStr(from_val)
                   \o " meters\n   - To:   " \o PyStr(to_val))
        ELSE IF path = "root['attrs']['name']"
        THEN Str(n \o ". Scenario name changed" \o FromToQuoted(from_val, to_val))
        ELSE Str(n \o ". Change at " \o path \o plain)

(***************************************************************************)
(* describe_add_remove(path, value, is_addition): the line, or None        *)
(***************************************************************************)
\* a faulty variant: the pattern leaves out the facility the vehicle belongs to
IsVehicleItemPath_NoFacility(path) ==
    LET p1 == "root['vehicles']["
        e1 == DigitsEnd(path, Len(p1) + 1)
    IN /\ StartsWith(path, p1)
       /\ e1 > Len(p1) + 1
       /\ e1 = Len(path)
       /\ CharAt(path, e1) = "]"

\* re.match(r"root\['facilities'\]\[\d+\]\['vehicles'\]\[\d+\]$", path)
IsVehicleItemPath(path) ==
    LET p1 == "root['facilities']["
        e1 == DigitsEnd(path, Len(p1) + 1)
        p2 == "]['vehicles']["
        s2 == e1 + Len(p2)
        e2 == DigitsEnd(path, s2)
    IN /\ StartsWith(path, p1)
       /\ e1 > Len(p1) + 1
       /\ s2 - 1 <= Len(path)
       /\ SubSeq(path, e1, s2 - 1) = p2
       /\ e2 > s2
       /\ e2 = Len(path)
       /\ CharAt(path, e2) = "]"

IsFacilityItem(path, value) ==
    /\ Contains(path, "['facilities']")
    /\ Contains(path, "['attrs']")
    /\ IsDict(value)
    /\ "name" \in DOMAIN value.v

describe_add_remove(path, value, is_addition, counter, ix) ==
    LET stop_match == IndexSearch("stops", path)
        vehicle_match == IndexSearch("vehicles", path)
        facility_match == IndexSearch("facilities", path)
        vehicle_name ==
            IF facility_match.matched /\ vehicle_match.matched
            THEN PyStr(get_vehicle_name_by_fac_index(ix, facility_match.group,
                                                     vehicle_match.group))
            ELSE "Unknown Vehicle"
        n == ToString(counter + 1)
        geo == Get(value, "geo", PyNone)
        end_fac_id == Get(Get(value, "attrs", EmptyDict), "end_facility_id", PyNone)
        dest_name ==
            IF Truthy(geo) THEN PyStr(get_facility_name_by_geo(ix, geo))
            ELSE IF Truthy(end_fac_id)
            THEN PyStr(Lookup(ix.FACILITY_NAMES_BY_ID, PyStr(end_fac_id),
                              Str("Facility ID " \o PyStr(end_fac_id))))
            ELSE "(Unknown Destination)"
    IN  IF IsFacilityItem(path, value)
        THEN Str(n \o ". Facility " \o (IF is_addition THEN "added" ELSE "removed")
                   \o ": \"" \o PyStr(Get(value, "name", Str("(Unnamed Facility)"))) \o "\"")
        ELSE IF IsVehicleItemPath(path) /\ IsDict(value)
        THEN Str(n \o ". Vehicle " \o (IF is_addition THEN "added" ELSE "removed")
                   \o ": \""
                   \o PyStr(Get(Get(value, "attrs", EmptyDict), "name",
                                Str("(Unnamed Vehicle)"))) \o "\"")
        ELSE IF stop_match.matched /\ IsDict(value)
        THEN Str(n \o ". Stop " \o (IF is_addition THEN "added to" ELSE "removed from")
                   \o " route (" \o vehicle_name \o "):\n   - Destination: '"
                   \o dest_name \o "'")
        ELSE PyNone

(***************************************************************************)
(* The body of the per-file loop of compare_multiple_files (lines 346-374) *)
(***************************************************************************)
NoSharedWarning ==
    "No shared facility names between base and test file. Likely wrong model - comparison skipped."
NoChangesSentinel == "Only differences in ignored fields. No meaningful changes."

\* lines 355-359: the loop over diff['values_changed']
RECURSIVE ChangedLoop(_, _, _, _, _)
ChangedLoop(entries, st, ix, base, test) ==
    IF Len(entries) = 0 THEN st
    ELSE LET e == Head(entries)
             next == IF ~is_ignored_path(e.path)
                     THEN [lines |-> Append(st.lines,
                                        describe_change(e.path, e, st.counter, ix, base, test)),
                           counter |-> st.counter + 1]
                     ELSE st
         IN ChangedLoop(Tail(entries), next, ix, base, test)

\* lines 362-366 and 367-371: the loops over the added and the removed items
RECURSIVE AddRemoveLoop(_, _, _, _)
AddRemoveLoop(entries, is_addition, st, ix) ==
    IF Len(entries) = 0 THEN st
    ELSE LET e == Head(entries)
             desc == describe_add_remove(e.path, e.value, is_addition, st.counter, ix)
             next == IF Truthy(desc)
                     THEN [lines |-> Append(st.lines, desc), counter |-> st.counter + 1]
                     ELSE st
         IN AddRemoveLoop(Tail(entries), is_addition, next, ix)

\* a faulty variant: the lines are joined without the fall-back to the sentinel
JoinLines_NoSentinel(lines) ==
    JoinStr("\n\n", [i \in 1..Len(SelectSeq(lines, Truthy)) |->
                         PyStr(SelectSeq(lines, Truthy)[i])])

\* line 373: the stored text
JoinLines(lines) ==
    IF Len(lines) > 0
    THEN JoinStr("\n\n", [i \in 1..Len(SelectSeq(lines, Truthy)) |->
                              PyStr(SelectSeq(lines, Truthy)[i])])
    ELSE NoChangesSentinel

\* lines 354-373, for a diff already computed: the three loops run one after
\* the other on the same lines and counter
AssembleReport(diff, ix, base, test) ==
    CHOOSE text \in
        { JoinLines(removed.lines) :
            removed \in
              { AddRemoveLoop(diff.iterable_item_removed, FALSE, added, ix) :
                  added \in
                    { AddRemoveLoop(diff.iterable_item_added, TRUE,
                                    [lines |-> changed.lines,
                                     counter |-> changed.counter - 1], ix) :
                        changed \in
                          { ChangedLoop(diff.values_changed,
                                        [lines |-> <<>>, counter |-> 1],
                                        ix, base, test) } } } } : TRUE

\* lines 346-374: the report stored for one test document
ReportFor(base, test) ==
    IF ~shared_facilities_exist(base, test) THEN NoSharedWarning
    ELSE CHOOSE text \in { AssembleReport(diff, ix, base, test) :
                              diff \in {DeepDiff(base, test)},
                              ix \in {prepare_mappings(base, test)} } : TRUE

(***************************************************************************)
(* Files.  The content of a file is a JSON text: either one that json.load *)
(* parses to a document, or one it rejects.                                *)
(***************************************************************************)
JsonText(doc) == [ok |-> TRUE, data |-> doc]
Malformed == [ok |-> FALSE, data |-> PyNone]

\* load_json: the parsed document, or the exception json.load raises
load_json(content) == [raised |-> ~content.ok, value |-> content.data]

Filenames(stored) == {stored.filenames[i] : i \in 1..Len(stored.filenames)}

\* lines 338-374: the loop over zip(uploaded_contents, uploaded_filenames);
\* an exception of load_json leaves the loop with the store as filled so far
RECURSIVE FileLoop(_, _, _, _)
FileLoop(base, stored, i, store) ==
    IF i > Len(stored.contents) \/ i > Len(stored.filenames)
    THEN [raised |-> FALSE, comparison_results |-> store]
    ELSE LET loaded == load_json(stored.contents[i])
         IN IF loaded.raised
            THEN [raised |-> TRUE, comparison_results |-> store]
            ELSE FileLoop(base, stored, i + 1,
                          Put(store, stored.filenames[i], ReportFor(base, loaded.value)))

\* show_selected_result(selected_file), read against a given store
show_selected_result(store, selected_file) ==
    IF Truthy(selected_file) THEN Lookup(store, selected_file.v, "") ELSE ""

(***************************************************************************)
(* Callbacks                                                               *)
(***************************************************************************)
\* update_files, upload branch: the dropped files are appended to the store
UploadFiles(names) ==
    /\ Len(names) > 0
    /\ Len(stored_testfiles.filenames) + Len(names) <= MaxFiles
    /\ stored_testfiles' =
           [filenames |-> stored_testfiles.filenames \o names,
            contents |-> stored_testfiles.contents
                             \o [i \in 1..Len(names) |-> user_files[names[i]]]]
    /\ UNCHANGED <<base_cases, user_files, base_file, n_clicks, base_data,
                   comparison_results, testfile_dropdown, results>>

RemoveAt(s, idx) == [i \in 1..(Len(s) - 1) |-> IF i <= idx THEN s[i] ELSE s[i + 1]]

\* update_files, remove branch: the button of position idx was clicked
RemoveFile(idx) ==
    /\ idx < Len(stored_testfiles.filenames)
    /\ stored_testfiles' =
           [filenames |-> RemoveAt(stored_testfiles.filenames, idx),
            contents |-> RemoveAt(stored_testfiles.contents, idx)]
    /\ UNCHANGED <<base_cases, user_files, base_file, n_clicks, base_data,
                   comparison_results, testfile_dropdown, results>>

\* the user picks a file of base_cases in the base dropdown
SelectBase(f) ==
    /\ base_file # Str(f)
    /\ base_file' = Str(f)
    /\ UNCHANGED <<base_cases, user_files, stored_testfiles, n_clicks, base_data,
                   comparison_results, testfile_dropdown, results>>

\* compare_multiple_files, called for a click on the compare button
compare_multiple_files ==
    /\ n_clicks < MaxClicks
    /\ n_clicks' = n_clicks + 1
    /\ IF ~Truthy(Num(n_clicks')) \/ ~Truthy(base_file)
          \/ ~Truthy(Arr(stored_testfiles.contents))
       THEN /\ testfile_dropdown' = [options |-> <<>>, value |-> PyNone]
            /\ UNCHANGED <<base_data, comparison_results>>
       ELSE \E loaded \in {load_json(base_cases[base_file.v])} :
              IF loaded.raised
              THEN /\ comparison_results' = EmptyMap
                   /\ UNCHANGED <<base_data, testfile_dropdown>>
              ELSE \E run \in {FileLoop(loaded.value, stored_testfiles, 1, EmptyMap)} :
                     /\ base_data' = loaded.value
                     /\ comparison_results' = run.comparison_results
                     /\ IF run.raised
                        THEN UNCHANGED testfile_dropdown
                        ELSE testfile_dropdown' =
                                 [options |-> stored_testfiles.filenames,
                                  value |-> Str(stored_testfiles.filenames[1])]
    /\ UNCHANGED <<base_cases, user_files, stored_testfiles, base_file, results>>

\* the user picks one of the options of the test-file dropdown
SelectTestFile(f) ==
    /\ \E i \in 1..Len(testfile_dropdown.options) : testfile_dropdown.options[i] = f
    /\ testfile_dropdown.value # Str(f)
    /\ testfile_dropdown' = [testfile_dropdown EXCEPT !.value = Str(f)]
    /\ UNCHANGED <<base_cases, user_files, stored_testfiles, base_file, n_clicks,
                   base_data, comparison_results, results>>

\* the callback show_selected_result, run for the value of the dropdown
ShowSelectedResult ==
    /\ results' = show_selected_result(comparison_results, testfile_dropdown.value)
    /\ results' # results
    /\ UNCHANGED <<base_cases, user_files, stored_testfiles, base_file, n_clicks,
                   base_data, comparison_results, testfile_dropdown>>

(***************************************************************************)
(* Documents                                                               *)
(***************************************************************************)
Vehicle(id, name, speed) ==
    Obj([attrs |-> Obj([id |-> Num(id), name |-> Str(name), speed |-> Num(speed)])])

Facility(id, name, capacity, provider, vehicles) ==
    Obj([id |-> Num(id),
         attrs |-> Obj([UID |-> Num(100 + id), name |-> Str(name),
                        storage_capacity |-> Num(capacity)]),
         provider |-> Obj([name |-> Str(provider)]),
         vehicles |-> Arr(vehicles)])

Document(facilities) ==
    Obj([attrs |-> Obj([name |-> Str("Scenario")]), facilities |-> Arr(facilities)])

DocWithoutFacilities == Obj([attrs |-> Obj([name |-> Str("Scenario")])])

V1 == Vehicle(1, "V1", 5)
V2 == Vehicle(2, "V2", 6)
V3 == Vehicle(3, "V3", 7)
V4 == Vehicle(4, "V4", 8)
Fleet == <<V1, V2, V3>>
Depot == Facility(2, "S", 20, "P", <<>>)

DocBase == Document(<<Facility(1, "A", 10, "P", Fleet), Depot>>)
DocSingleA == Document(<<Facility(1, "A", 10, "P", <<>>)>>)
DocSingleB == Document(<<Facility(1, "B", 10, "P", <<>>)>>)
DocFacilityRenamed == Document(<<Facility(1, "B", 10, "P", Fleet), Depot>>)
DocVehicleRenamed ==
    Document(<<Facility(1, "A", 10, "P", <<V1, Vehicle(2, "X2", 6), V3>>), Depot>>)
DocVehicleRenamedFaster ==
    Document(<<Facility(1, "A", 10, "P", <<V1, Vehicle(2, "X2", 9), V3>>), Depot>>)
DocFirstVehicleRemoved == Document(<<Facility(1, "A", 10, "P", <<V2, V3>>), Depot>>)
DocMiddleVehicleRemoved == Document(<<Facility(1, "A", 10, "P", <<V1, V3>>), Depot>>)
DocLastVehicleRemoved == Document(<<Facility(1, "A", 10, "P", <<V1, V2>>), Depot>>)
DocVehicleAdded == Document(<<Facility(1, "A", 10, "P", <<V1, V2, V3, V4>>), Depot>>)
DocFacilityAdded ==
    Document(<<Facility(1, "A", 10, "P", Fleet), Depot, Facility(3, "N", 30, "P", <<>>)>>)
DocIdsChanged ==
    Document(<<Facility(9, "A", 11, "Q", <<Vehicle(8, "V1", 5), V2, V3>>), Depot>>)
DocNoFacilities == Document(<<>>)

Documents ==
    {DocBase, DocSingleA, DocSingleB, DocFacilityRenamed, DocVehicleRenamed,
     DocVehicleRenamedFaster, DocFirstVehicleRemoved, DocMiddleVehicleRemoved,
     DocLastVehicleRemoved, DocVehicleAdded, DocFacilityAdded, DocIdsChanged,
     DocNoFacilities, DocWithoutFacilities}

(***************************************************************************)
(* Environments: what base_cases holds and what the user can upload        *)
(***************************************************************************)
PairEnvironments ==
    {[base_cases |-> ("base.json" :> JsonText(b)),
      user_files |-> ("test.json" :> JsonText(d))] : b \in Documents, d \in Documents}

BatchEnvironment ==
    [base_cases |-> ("base.json" :> JsonText(DocBase)) @@ ("broken.json" :> Malformed),
     user_files |-> ("first.json" :> JsonText(DocVehicleRenamedFaster))
                    @@ ("bad.json" :> Malformed)
                    @@ ("last.json" :> JsonText(DocFacilityAdded))]

Environments == PairEnvironments \cup {BatchEnvironment}

UploadBatches == UNION {[1..n -> DOMAIN user_files] : n \in 1..MaxBatch}

Init ==
    /\ \E env \in Environments :
           /\ base_cases = env.base_cases
           /\ user_files = env.user_files
    /\ stored_testfiles = [filenames |-> <<>>, contents |-> <<>>]
    /\ base_file = PyNone
    /\ n_clicks = 0
    /\ base_data = EmptyDict
    /\ comparison_results = EmptyMap
    /\ testfile_dropdown = [options |-> <<>>, value |-> PyNone]
    /\ results = ""

Next ==
    \/ \E names \in UploadBatches : UploadFiles(names)
    \/ \E idx \in 0..(MaxFiles - 1) : RemoveFile(idx)
    \/ \E f \in DOMAIN base_cases : SelectBase(f)
    \/ compare_multiple_files
    \/ \E f \in DOMAIN user_files : SelectTestFile(f)
    \/ ShowSelectedResult

Spec == Init /\ [][Next]_vars

(***************************************************************************)
(* Documents with products, outputs, routes and stops, and the runs that   *)
(* compare them: the paths of their differences reach every return of      *)
(* describe_change                                                         *)
(***************************************************************************)
Product(id, name, price) ==
    Obj([attrs |-> Obj([id |-> Num(id), name |-> Str(name), price |-> Num(price)])])

Stop(name, distance, drop_vol, delay) ==
    Obj([attrs |-> Obj([name |-> Str(name), distance |-> Num(distance),
                        drop_vol |-> Num(drop_vol), delay |-> Num(delay)])])

RouteVehicle(name, speed, delay, distance, geopath, stops, products) ==
    Obj([attrs |-> Obj([name |-> Str(name), speed |-> Num(speed), delay |-> Num(delay),
                        distance |-> Num(distance), geopath |-> Str(geopath)]),
         stops |-> Arr(stops),
         products |-> Arr(products)])

Site(name, capacity, lat, provider, output, vehicles) ==
    Obj([attrs |-> Obj([name |-> Str(name), storage_capacity |-> Num(capacity),
                        lat |-> Num(lat)]),
         provider |-> Obj([name |-> Str(provider)]),
         outputs |-> Arr(<<Obj([attrs |-> Obj([name |-> Str(output)])])>>),
         vehicles |-> Arr(vehicles)])

Scenario(name, products, facilities) ==
    Obj([attrs |-> Obj([name |-> Str(name)]),
         products |-> Arr(products),
         facilities |-> Arr(facilities)])

\* the second product has an id that is not truthy
DocRoutes ==
    Scenario("Plan",
             <<Product(7, "Bread", 3), Product(0, "Milk", 4)>>,
             <<Site("A", 10, 52, "P", "Flour",
                    <<RouteVehicle("V1", 5, 1, 100, "abc",
                                   <<Stop("first", 40, 2, 1)>>,
                                   <<Product(7, "Bread", 3), Product(0, "Milk", 4)>>)>>),
               Site("S", 20, 53, "P", "Salt", <<>>)>>)

\* DocRoutes with every leaf but the name of the second facility altered
DocRoutesAltered ==
    Scenario("Plan B",
             <<Product(7, "Rolls", 5), Product(0, "Cream", 6)>>,
             <<Site("B", 11, 54, "Q", "Rye",
                    <<RouteVehicle("X1", 6, 2, 101, "abd",
                                   <<Stop("other", 41, 3, 2)>>,
                                   <<Product(7, "Rolls", 5), Product(0, "Cream", 6)>>)>>),
               Site("S", 21, 55, "Q", "Pepper", <<>>)>>)

\* the user holds the altered document and a copy of the base document
RoutesEnvironments ==
    {[base_cases |-> ("base.json" :> JsonText(DocRoutes)),
      user_files |-> ("test.json" :> JsonText(DocRoutesAltered))
                     @@ ("same.json" :> JsonText(DocRoutes))]}

InitRoutes ==
    /\ \E env \in RoutesEnvironments :
           /\ base_cases = env.base_cases
           /\ user_files = env.user_files
    /\ stored_testfiles = [filenames |-> <<>>, contents |-> <<>>]
    /\ base_file = PyNone
    /\ n_clicks = 0
    /\ base_data = EmptyDict
    /\ comparison_results = EmptyMap
    /\ testfile_dropdown = [options |-> <<>>, value |-> PyNone]
    /\ results = ""

SpecRoutes == InitRoutes /\ [][Next]_vars

(***************************************************************************)
(* Reading a report and a path back, for the properties below              *)
(***************************************************************************)
\* the lines of a report: the pieces between blank-line separators (no
\* rendered line holds a blank line itself)
Separators(text) == {i \in 1..(Len(text) - 1) : SubSeq(text, i, i + 1) = "\n\n"}
Paragraphs(text) ==
    IF text = "" THEN <<>>
    ELSE LET seps == Separators(text)
             nth(k) == CHOOSE i \in seps : Cardinality({j \in seps : j < i}) = k - 1
         IN [k \in 1..(Cardinality(seps) + 1) |->
                SubSeq(text,
                       IF k = 1 THEN 1 ELSE nth(k - 1) + 2,
                       IF k = Cardinality(seps) + 1 THEN Len(text) ELSE nth(k) - 1)]

\* the numbered lines of a stored report; the two fixed messages carry none
ReportLines(report) ==
    IF report \in {NoSharedWarning, NoChangesSentinel} THEN <<>> ELSE Paragraphs(report)

HasNumber(line, k) == StartsWith(line, ToString(k) \o ". ")

\* the steps of a path: [field |-> name] for ['name'], [index |-> n] for [n]
RECURSIVE PathSteps(_, _)
PathSteps(path, i) ==
    IF i > Len(path) THEN <<>>
    ELSE IF CharAt(path, i) # "[" THEN PathSteps(path, i + 1)
    ELSE IF CharAt(path, i + 1) = "'"
    THEN LET close == Min({j \in (i + 2)..(Len(path) - 1) : SubSeq(path, j, j + 1) = "']"})
         IN <<[kind |-> "field", name |-> SubSeq(path, i + 2, close - 1), index |-> 0]>>
                \o PathSteps(path, close + 2)
    ELSE LET close == Min({j \in (i + 1)..Len(path) : CharAt(path, j) = "]"})
         IN <<[kind |-> "index", name |-> "",
               index |-> ParseInt(SubSeq(path, i + 1, close - 1))]>>
                \o PathSteps(path, close + 1)

Steps(path) == PathSteps(path, 1)
IsField(step, name) == step.kind = "field" /\ step.name = name

\* a field name that holds the letters i, d next to each other, in any case
NameHoldsId(name) ==
    \E i \in 1..(Len(name) - 1) :
        SubSeq(name, i, i + 1) \in {"id", "Id", "iD", "ID"}

OnIdField(path) ==
    \E k \in 1..Len(Steps(path)) :
        Steps(path)[k].kind = "field" /\ NameHoldsId(Steps(path)[k].name)

\* a path through vehicles[j] that ends at attrs.name
OnVehicleName(path) ==
    LET st == Steps(path)
        n == Len(st)
    IN /\ \E k \in 1..(n - 1) : IsField(st[k], "vehicles") /\ st[k + 1].kind = "index"
       /\ n >= 2 /\ IsField(st[n - 1], "attrs") /\ IsField(st[n], "name")

\* the pairs (base document, test document) whose report is in the store
Stored == DOMAIN comparison_results
BaseDoc == base_data
TestDoc(f) == user_files[f].data
PassesGuard(f) ==
    \E n \in FacilityNameSet(BaseDoc) : n \in FacilityNameSet(TestDoc(f))

Changed(f) == DeepDiff(BaseDoc, TestDoc(f)).values_changed
Added(f) == DeepDiff(BaseDoc, TestDoc(f)).iterable_item_added
Removed(f) == DeepDiff(BaseDoc, TestDoc(f)).iterable_item_removed

Count(seq, P(_)) == Len(SelectSeq(seq, P))

\* a changed entry that is to give a line: not on an id field, not a vehicle name
ChangeSurvives(e) == ~OnIdField(e.path) /\ ~OnVehicleName(e.path)
\* an added or removed entry that gives a line
ItemSurvives(f, e, is_addition) ==
    Truthy(describe_add_remove(e.path, e.value, is_addition, 0,
                               prepare_mappings(BaseDoc, TestDoc(f))))
Survivors(f) ==
    LET added(e) == ItemSurvives(f, e, TRUE)
        removed(e) == ItemSurvives(f, e, FALSE)
    IN <<Count(Changed(f), ChangeSurvives), Count(Added(f), added),
         Count(Removed(f), removed)>>

IsAddedLine(line) ==
    \/ Contains(line, ". Facility added: ")
    \/ Contains(line, ". Vehicle added: ")
    \/ Contains(line, ". Stop added to route (")
IsRemovedLine(line) ==
    \/ Contains(line, ". Facility removed: ")
    \/ Contains(line, ". Vehicle removed: ")
    \/ Contains(line, ". Stop removed from route (")

(***************************************************************************)
(* C1: the lines of a report carry the numbers 1, 2, ..., N with no gap    *)
(* and no repeat, N being the number of entries that survive filtering and *)
(* suppression; a filtered or suppressed entry consumes no number; the     *)
(* lines of changed values come first, then additions, then removals.      *)
(***************************************************************************)
C1_NumberedWithoutGaps ==
    \A f \in Stored :
        PassesGuard(f) =>
            LET lines == ReportLines(comparison_results[f])
                n == Survivors(f)
            IN /\ Len(lines) = n[1] + n[2] + n[3]
               /\ \A k \in 1..Len(lines) :
                      /\ HasNumber(lines[k], k)
                      /\ IsAddedLine(lines[k]) <=> (n[1] < k /\ k <= n[1] + n[2])
                      /\ IsRemovedLine(lines[k]) <=> (n[1] + n[2] < k)

(***************************************************************************)
(* C2: when loading one test file of a batch fails, that file still gets a *)
(* report (the failure message) and every other file of the batch gets its *)
(* own report; the failure does not abort the batch.                       *)
(***************************************************************************)
C2_FailureIsolated ==
    [][(/\ n_clicks' # n_clicks
        /\ Truthy(base_file)
        /\ Truthy(Arr(stored_testfiles.contents))
        /\ base_cases[base_file.v].ok)
       => \A i \in 1..Len(stored_testfiles.filenames) :
              LET f == stored_testfiles.filenames[i]
                  c == stored_testfiles.contents[i]
              IN /\ f \in DOMAIN comparison_results'
                 /\ c.ok => comparison_results'[f]
                                = ReportFor(base_cases[base_file.v].data, c.data)]_vars

(***************************************************************************)
(* C3: for a pair that passes the shared-context guard, when no line       *)
(* survives, the stored report is the fixed sentinel, never an empty text. *)
(***************************************************************************)
C3_SentinelWhenNothingSurvives ==
    \A f \in Stored :
        (PassesGuard(f) /\ Survivors(f) = <<0, 0, 0>>)
            => comparison_results[f] = NoChangesSentinel

(***************************************************************************)
(* C4 (Scenario A): base has the single facility "A", test has the same    *)
(* single facility (same id) named "B": the report is exactly the          *)
(* facility-rename line numbered 1, naming the facility 'A', From: A,      *)
(* To: B.                                                                  *)
(***************************************************************************)
FacilitiesOf(doc) == ItemsOf(doc, "facilities")
FacilityName(doc, i) == FacilitiesOf(doc)[i].v["attrs"].v["name"]

\* test is base with the name of facility i changed, and nothing else
IsRenameOfFacility(base, test, i) ==
    /\ i <= Len(FacilitiesOf(test))
    /\ FacilityName(test, i) # FacilityName(base, i)
    /\ test = [base EXCEPT !.v.facilities.v[i].v.attrs.v.name = FacilityName(test, i)]

RenameLine(base, test, i) ==
    "1. Facility Name changed at facility item in '" \o FacilityName(base, i).v
        \o "':\n   - From: " \o FacilityName(base, i).v
        \o "\n   - To:   " \o FacilityName(test, i).v

C4_ScenarioA ==
    \A f \in Stored :
        (/\ Len(FacilitiesOf(BaseDoc)) = 1
         /\ IsRenameOfFacility(BaseDoc, TestDoc(f), 1))
            => comparison_results[f] = RenameLine(BaseDoc, TestDoc(f), 1)

\* C4 as amended: the rename line is the whole report when the documents
\* still share a facility name; in Scenario A itself they share none and the
\* report is the warning of the shared-context guard.
C4_ScenarioA_Amended ==
    \A f \in Stored :
        \A i \in 1..Len(FacilitiesOf(BaseDoc)) :
            IsRenameOfFacility(BaseDoc, TestDoc(f), i) =>
                comparison_results[f] =
                    IF \E j \in 1..Len(FacilitiesOf(BaseDoc)) :
                           \E k \in 1..Len(FacilitiesOf(BaseDoc)) :
                               FacilityName(BaseDoc, j) = FacilityName(TestDoc(f), k)
                    THEN RenameLine(BaseDoc, TestDoc(f), i)
                    ELSE NoSharedWarning

\* the report of Scenario A is in the store
C4_Witness ==
    \E f \in Stored :
        /\ Len(FacilitiesOf(BaseDoc)) = 1
        /\ IsRenameOfFacility(BaseDoc, TestDoc(f), 1)
        /\ FacilityName(BaseDoc, 1) = Str("A")
        /\ FacilityName(TestDoc(f), 1) = Str("B")

(***************************************************************************)
(* C5 (idempotence): comparing a document with an identical copy of itself *)
(* gives the 'no meaningful changes' sentinel, for every document,         *)
(* including one with an empty or absent facilities sequence.              *)
(***************************************************************************)
C5_Idempotence ==
    \A f \in Stored :
        TestDoc(f) = BaseDoc => comparison_results[f] = NoChangesSentinel

\* C5 as amended: the sentinel for every document with at least one
\* facility; the guard's warning for a document with none.
C5_Idempotence_Amended ==
    \A f \in Stored :
        TestDoc(f) = BaseDoc =>
            comparison_results[f] =
                IF Len(FacilitiesOf(BaseDoc)) > 0 THEN NoChangesSentinel
                ELSE NoSharedWarning

\* a document with facilities and vehicles was compared with its copy
C5_Witness ==
    \E f \in Stored :
        /\ TestDoc(f) = BaseDoc
        /\ \E i \in 1..Len(FacilitiesOf(BaseDoc)) :
               Len(ItemsOf(FacilitiesOf(BaseDoc)[i], "vehicles")) > 0

(***************************************************************************)
(* C6 (Scenario C): one vehicle removed from a facility's vehicles, at any *)
(* position, the documents being otherwise equal: the report is exactly    *)
(* one line, 'Vehicle removed: "{name}"' with the name of the vehicle that *)
(* was removed, and no name-change line for any vehicle.                   *)
(***************************************************************************)
VehiclesOf(doc, i) == ItemsOf(FacilitiesOf(doc)[i], "vehicles")
VehicleName(doc, i, p) == VehiclesOf(doc, i)[p].v["attrs"].v["name"].v

\* test is base without the vehicle at position p of facility i
IsRemovalOfVehicle(base, test, i, p) ==
    test = [base EXCEPT !.v.facilities.v[i].v.vehicles.v = RemoveAt(@, p - 1)]

RemovalSites(base) ==
    UNION {{<<i, p>> : p \in 1..Len(VehiclesOf(base, i))} :
              i \in 1..Len(FacilitiesOf(base))}

IsVehicleRemovedLine(line, name) ==
    EndsWith(line, ". Vehicle removed: \"" \o name \o "\"")

MentionsVehicleName(line) ==
    \/ Contains(line, "['attrs']['name']")
    \/ Contains(line, "name changed")
    \/ Contains(line, "Name changed")

C6_ScenarioC ==
    \A f \in Stored :
        \A s \in RemovalSites(BaseDoc) :
            IsRemovalOfVehicle(BaseDoc, TestDoc(f), s[1], s[2]) =>
                LET lines == ReportLines(comparison_results[f])
                IN /\ Len(lines) = 1
                   /\ IsVehicleRemovedLine(lines[1], VehicleName(BaseDoc, s[1], s[2]))

\* C6 as amended: a removal at the last position gives exactly the line
\* numbered 1 that names the removed vehicle; a removal at any position gives
\* exactly one 'Vehicle removed' line, which names the vehicle at the last
\* position of the base sequence, and no line about a vehicle's name.
C6_ScenarioC_Amended ==
    \A f \in Stored :
        \A s \in RemovalSites(BaseDoc) :
            IsRemovalOfVehicle(BaseDoc, TestDoc(f), s[1], s[2]) =>
                LET lines == ReportLines(comparison_results[f])
                    last == Len(VehiclesOf(BaseDoc, s[1]))
                    removedLine(l) == Contains(l, ". Vehicle removed: ")
                    named(l) == IsVehicleRemovedLine(l, VehicleName(BaseDoc, s[1], last))
                IN /\ Count(lines, removedLine) = 1
                   /\ Count(lines, named) = 1
                   /\ \A j \in 1..Len(lines) : ~MentionsVehicleName(lines[j])
                   /\ s[2] = last =>
                          comparison_results[f]
                              = "1. Vehicle removed: \""
                                    \o VehicleName(BaseDoc, s[1], last) \o "\""

\* a vehicle that was not the last of its facility was removed
C6_Witness ==
    \E f \in Stored :
        \E s \in RemovalSites(BaseDoc) :
            /\ IsRemovalOfVehicle(BaseDoc, TestDoc(f), s[1], s[2])
            /\ s[2] < Len(VehiclesOf(BaseDoc, s[1]))

(***************************************************************************)
(* C7: after a click on the compare button, show_selected_result returns a *)
(* report only for a test file of that click's comparison; nothing is left *)
(* over from an earlier run, also when the click had no base file or no    *)
(* test files.                                                             *)
(***************************************************************************)
C7_StoreScopedToRun ==
    [][n_clicks' # n_clicks
       => \A f \in DOMAIN user_files :
              show_selected_result(comparison_results', Str(f)) # ""
                  => /\ f \in Filenames(stored_testfiles)
                     /\ Truthy(base_file)]_vars

(***************************************************************************)
(* C8: a changed entry whose path goes through vehicles[j] and ends at     *)
(* attrs.name gives no line in the report, whatever its old and new value: *)
(* no line carries the number of that entry, and the report has no more    *)
(* lines than there are other entries.                                     *)
(***************************************************************************)
NotOnIdField(e) == ~OnIdField(e.path)
EntryOnVehicleName(e) == OnVehicleName(e.path)

C8_VehicleRenameSuppressed ==
    \A f \in Stored :
        PassesGuard(f) =>
            LET attempted == SelectSeq(Changed(f), NotOnIdField)
                lines == ReportLines(comparison_results[f])
            IN /\ \A k \in 1..Len(attempted) :
                      OnVehicleName(attempted[k].path)
                          => \A j \in 1..Len(lines) : ~HasNumber(lines[j], k)
               /\ Len(lines) <= Len(attempted) - Count(attempted, EntryOnVehicleName)
                                    + Len(Added(f)) + Len(Removed(f))

\* a report with lines, for a pair that differs in a vehicle's name
C8_Witness ==
    \E f \in Stored :
        /\ PassesGuard(f)
        /\ \E k \in 1..Len(Changed(f)) : OnVehicleName(Changed(f)[k].path)
        /\ Len(ReportLines(comparison_results[f])) > 0

(***************************************************************************)
(* C9: a changed entry on a path that holds, at any position, a bracketed  *)
(* quoted field whose name contains "id" in any letter case gives no line  *)
(* and consumes no number: the report is the one assembled from the diff   *)
(* without these entries.                                                  *)
(***************************************************************************)
C9_IdPathsIgnored ==
    \A f \in Stored :
        PassesGuard(f) =>
            LET diff == DeepDiff(BaseDoc, TestDoc(f))
                rest == [diff EXCEPT !.values_changed = SelectSeq(@, NotOnIdField)]
            IN comparison_results[f]
                   = AssembleReport(rest, prepare_mappings(BaseDoc, TestDoc(f)),
                                    BaseDoc, TestDoc(f))

\* a report with a numbered line after changed entries on id fields at the
\* end of the path, inside the path and in upper case
C9_Witness ==
    \E f \in Stored :
        /\ PassesGuard(f)
        /\ \E k \in 1..Len(Changed(f)) : EndsWith(Changed(f)[k].path, "['id']")
        /\ \E k \in 1..Len(Changed(f)) : EndsWith(Changed(f)[k].path, "['UID']")
        /\ \E k \in 1..Len(Changed(f)) : EndsWith(Changed(f)[k].path, "['provider']['name']")
        /\ \E k \in 2..Len(Changed(f)) :
               /\ OnIdField(Changed(f)[1].path)
               /\ ~OnIdField(Changed(f)[k].path)
        /\ Len(ReportLines(comparison_results[f])) > 0

(***************************************************************************)
(* C10: an added (removed) entry for a whole facility, at the path         *)
(* root -> facilities[i] with a value that has a name in its attrs, gives  *)
(* the line 'Facility added: "{name}"' ('Facility removed: "{name}"').     *)
(***************************************************************************)
IsWholeFacility(e) ==
    /\ Len(Steps(e.path)) = 2
    /\ IsField(Steps(e.path)[1], "facilities")
    /\ Steps(e.path)[2].kind = "index"
    /\ IsDict(e.value)
    /\ "name" \in DOMAIN Get(e.value, "attrs", EmptyDict).v

C10_FacilityAddedOrRemoved ==
    \A f \in Stored :
        PassesGuard(f) =>
            LET lines == ReportLines(comparison_results[f])
                named(e, word) ==
                    \E j \in 1..Len(lines) :
                        EndsWith(lines[j], ". Facility " \o word \o ": \""
                                             \o PyStr(e.value.v["attrs"].v["name"]) \o "\"")
            IN /\ \A k \in 1..Len(Added(f)) :
                      IsWholeFacility(Added(f)[k]) => named(Added(f)[k], "added")
               /\ \A k \in 1..Len(Removed(f)) :
                      IsWholeFacility(Removed(f)[k]) => named(Removed(f)[k], "removed")

(***************************************************************************)
(* C11: for every changed entry that is not ignored, the sentence of the   *)
(* report is the one of the first rule that matches the entry's path, in   *)
(* the order: vehicle-name suppression, product attribute, facility-item   *)
(* field, facility rename, vehicle attribute or delay, geopath, stop or    *)
(* route distance, drop volume, scenario rename, generic fallback.  An     *)
(* entry that matches none of the first ten rules gives the line           *)
(* 'Change at {path}', and only the first rule leaves an entry without a   *)
(* line.  The rules are read on the parsed steps of the path.              *)
(***************************************************************************)
HasField(st, name) == \E k \in 1..Len(st) : IsField(st[k], name)
HasIndexed(st, name) ==
    \E k \in 1..(Len(st) - 1) : IsField(st[k], name) /\ st[k + 1].kind = "index"
EndsAtAttr(st, name) ==
    Len(st) >= 2 /\ IsField(st[Len(st) - 1], "attrs") /\ IsField(st[Len(st)], name)

\* the index that follows the first step `name` that has one
FirstIndexOf(st, name) ==
    st[Min({k \in 1..(Len(st) - 1) :
               IsField(st[k], name) /\ st[k + 1].kind = "index"}) + 1].index

\* the product at the path's product index has a usable id in the base
\* document or, failing that, in the test document
ProductResolvable(st, base, test) ==
    /\ HasIndexed(st, "products")
    /\ \E doc \in {base, test} :
           /\ FirstIndexOf(st, "products") < Len(ItemsOf(doc, "products"))
           /\ Truthy(Get(Get(ItemsOf(doc, "products")[FirstIndexOf(st, "products") + 1],
                             "attrs", EmptyDict), "id", PyNone))

Kinds ==
    {"suppressed", "product", "facility item", "facility rename", "vehicle", "geopath",
     "stop distance", "route distance", "drop volume", "scenario", "generic"}

\* the kind of sentence of the first rule that matches the steps of a path,
\* in the documented order
RuleKind(st, base, test) ==
       IF HasIndexed(st, "vehicles") /\ EndsAtAttr(st, "name") THEN "suppressed"
       ELSE IF /\ ProductResolvable(st, base, test)
               /\ \E a \in {"name", "price", "weight", "cube_size"} : EndsAtAttr(st, a)
       THEN "product"
       ELSE IF \E a \in {"storage_capacity", "outputs", "demands", "daily_carbon_output_kg",
                          "stored", "rent_cost", "opt_cost"} : HasField(st, a)
       THEN "facility item"
       ELSE IF /\ Len(st) >= 2 /\ IsField(st[1], "facilities") /\ st[2].kind = "index"
               /\ EndsAtAttr(st, "name") /\ ~HasField(st, "vehicles")
       THEN "facility rename"
       ELSE IF \/ HasField(st, "delay")
               \/ /\ HasIndexed(st, "vehicles")
                  /\ \E a \in {"carry_volume", "speed", "cost_per_km", "max_weight",
                                 "carbon_kg_per_km"} : EndsAtAttr(st, a)
       THEN "vehicle"
       ELSE IF HasField(st, "geopath") THEN "geopath"
       ELSE IF EndsAtAttr(st, "distance")
       THEN (IF HasIndexed(st, "stops") THEN "stop distance" ELSE "route distance")
       ELSE IF EndsAtAttr(st, "drop_vol") THEN "drop volume"
       ELSE IF st = <<[kind |-> "field", name |-> "attrs", index |-> 0],
                      [kind |-> "field", name |-> "name", index |-> 0]>>
       THEN "scenario"
       ELSE "generic"

\* some field on the way holds the letters i, d next to each other
HoldsIdField(st) ==
    \E k \in 1..Len(st) : st[k].kind = "field" /\ NameHoldsId(st[k].name)

\* a changed entry read by the documented rules: whether the ignore filter
\* takes it out, and the kind of sentence that is due for it
Classified(e, base, test) ==
    CHOOSE r \in {[path |-> e.path, ignored |-> HoldsIdField(st),
                   kind |-> RuleKind(st, base, test)] : st \in {Steps(e.path)}} : TRUE

\* a line of a report without its number
Sentence(line) == SubSeq(line, DigitsEnd(line, 1) + 2, Len(line))

\* the kind of sentence a line of a report is
LineKind(line) ==
    LET s == Sentence(line)
    IN IF StartsWith(s, "Product ") /\ Contains(s, " changed for ") THEN "product"
       ELSE IF StartsWith(s, "Facility Name changed at facility item in '")
       THEN "facility rename"
       ELSE IF \/ StartsWith(s, "Storage capacity changed at '")
               \/ \E what \in {"Output quantity", "Demand quantity", "Carbon Output quantity",
                                "Quantity on Hand", "Daily Rent Cost", "Daily Operating Cost"} :
                      StartsWith(s, what \o " changed at facility item in '")
       THEN "facility item"
       ELSE IF StartsWith(s, "Vehicle ") /\ Contains(s, " changed for '") THEN "vehicle"
       ELSE IF StartsWith(s, "Route path (geopath) changed for ") THEN "geopath"
       ELSE IF StartsWith(s, "Stop distance changed at stop #") THEN "stop distance"
       ELSE IF StartsWith(s, "Route distance changed (Facility '") THEN "route distance"
       ELSE IF StartsWith(s, "Drop volume changed at stop #") THEN "drop volume"
       ELSE IF StartsWith(s, "Scenario name changed:") THEN "scenario"
       ELSE IF StartsWith(s, "Change at ") THEN "generic"
       ELSE "other"

\* the changed entries that are not ignored, as classified, and those of
\* them with a line due
Attempted(f) ==
    LET kept(r) == ~r.ignored
    IN CHOOSE s \in {SelectSeq([k \in 1..Len(changed) |->
                                   Classified(changed[k], BaseDoc, TestDoc(f))], kept) :
                         changed \in {Changed(f)}} : TRUE
Emitted(f) ==
    LET due(r) == r.kind # "suppressed"
    IN SelectSeq(Attempted(f), due)

\* the number of lines of added and removed items
ItemLines(f) ==
    LET added(e) == ItemSurvives(f, e, TRUE)
        removed(e) == ItemSurvives(f, e, FALSE)
    IN Count(Added(f), added) + Count(Removed(f), removed)

C11_FirstMatchingRule ==
    \A f \in Stored :
        PassesGuard(f) =>
            \A lines \in {ReportLines(comparison_results[f])}, emitted \in {Emitted(f)} :
                /\ Len(lines) = Len(emitted) + ItemLines(f)
                /\ \A j \in 1..Len(emitted) :
                       \A line \in {lines[j]} :
                           /\ LineKind(line) = emitted[j].kind
                           /\ LineKind(line) = "generic"
                                  => StartsWith(Sentence(line),
                                                "Change at " \o emitted[j].path \o ":")

\* a report for a pair whose changed entries meet every kind of rule, among
\* them a product name below a vehicle (suppressed) and a name below outputs
C11_Witness ==
    \E f \in Stored :
        /\ PassesGuard(f)
        /\ \E kinds \in {Attempted(f)} :
               /\ {kinds[k].kind : k \in 1..Len(kinds)} = Kinds
               /\ \E k \in 1..Len(kinds) :
                      /\ Contains(kinds[k].path, "['products'][")
                      /\ kinds[k].kind = "suppressed"
               /\ \E k \in 1..Len(kinds) :
                      /\ EndsWith(kinds[k].path, "['attrs']['name']")
                      /\ kinds[k].kind = "facility item"

====
